---- MODULE Spec2Model ----
(***************************************************************************)
(* A model of the storage backend of cs3700_raft: the binary codec of      *)
(* KvStateMachine and SetValueCommand (src/src/state_machine.rs) and the   *)
(* in-memory RamStorage (src/src/storage.rs).                              *)
(*                                                                         *)
(* Bytes are integers 0..255, byte buffers are sequences of bytes, Rust    *)
(* Strings are the byte sequences of their UTF-8 encoding.  An Option is a *)
(* sequence of length 0 (None) or 1 (Some).  A call that panics sets       *)
(* panicked and the process takes no further step.                         *)
(*                                                                         *)
(* RaftStateMachine<S> is a type of the my_raft library; its codec is      *)
(* taken to be the codec of its inner KvStateMachine (the config and the   *)
(* client ids it carries are the same in every state of this model).       *)
(***************************************************************************)
EXTENDS Integers, Sequences, FiniteSets, TLC

VARIABLES
    log,                    \* RamStorage.log: Vec<LogEntry>
    current_term,           \* RamStorage.current_term
    voted_for,              \* RamStorage.voted_for: Option<u32>
    snapshot_bytes,         \* RamStorage.snapshot_bytes
    snapshot_last_index,    \* RamStorage.snapshot_last_index
    snapshot_last_term,     \* RamStorage.snapshot_last_term
    snapshot_chunk_bytes,   \* RamStorage.snapshot_chunk_bytes
    init_state_machine,     \* RamStorage.init_state_machine
    panicked,               \* TRUE once a call has panicked
    call,                   \* the last call made: its name, arguments and result
    live,                   \* log entries appended and not yet removed (a count)
    appended,               \* log entries appended so far (a count)
    xfer,                   \* the chunked transfer in progress, as its sender sees it
    cin,                    \* codec run: the value to write, or the bytes to read
    cout                    \* codec run: the bytes written and the value decoded

vars == << log, current_term, voted_for, snapshot_bytes, snapshot_last_index,
           snapshot_last_term, snapshot_chunk_bytes, init_state_machine,
           panicked, call, live, appended, xfer, cin, cout >>

storageVars == << log, current_term, voted_for, snapshot_bytes, snapshot_last_index,
                  snapshot_last_term, snapshot_chunk_bytes, init_state_machine >>

-----------------------------------------------------------------------------
(* Options and results *)

None == << >>

Some(v) == << v >>

IsSome(o) == Len(o) = 1

\* The outcome of a decode: a value, None, or a panic (an unwrap of an Err).
Decoded(v) == [tag |-> "Some", val |-> << v >>]

DecodeNone == [tag |-> "None", val |-> << >>]

DecodePanic == [tag |-> "Panic", val |-> << >>]

-----------------------------------------------------------------------------
(* Bytes *)

\* A u32 is held as its two 16-bit halves, [hi, lo], standing for hi * 65536 + lo

\* u32::to_le_bytes
ToLeBytes(n) ==
    << n.lo % 256, n.lo \div 256, n.hi % 256, n.hi \div 256 >>

\* u32::to_be_bytes
ToBeBytes(n) ==
    << n.hi \div 256, n.hi % 256, n.lo \div 256, n.lo % 256 >>

\* u32::from_be_bytes of the four bytes of b that follow position pos (0-based)
FromBeBytes(b, pos) ==
    [hi |-> b[pos + 1] * 256 + b[pos + 2], lo |-> b[pos + 3] * 256 + b[pos + 4]]

\* `len as u32` of a usize (every length of this model is below 65536)
AsU32(len) == [hi |-> (len \div 65536) % 65536, lo |-> len % 65536]

U32Zero == [hi |-> 0, lo |-> 0]

\* n - 1 for a u32 n > 0
U32Pred(n) ==
    IF n.lo > 0 THEN [hi |-> n.hi, lo |-> n.lo - 1] ELSE [hi |-> n.hi - 1, lo |-> 65535]

\* bytes[from..to) with 0-based positions
Slice(b, from, to) == [i \in 1..(to - from) |-> b[from + i]]

\* One UTF-8 continuation byte
IsCont(x) == x >= 128 /\ x <= 191

\* std String::from_utf8: whether b[pos..] is well-formed UTF-8
RECURSIVE IsUtf8From(_, _)
IsUtf8From(b, pos) ==
    IF pos >= Len(b) THEN TRUE
    ELSE LET x == b[pos + 1]
             has(k) == pos + k <= Len(b)
             at(k) == b[pos + k]
         IN  IF x <= 127 THEN IsUtf8From(b, pos + 1)
             ELSE IF x >= 194 /\ x <= 223
                  THEN has(2) /\ IsCont(at(2)) /\ IsUtf8From(b, pos + 2)
             ELSE IF x = 224
                  THEN has(3) /\ at(2) >= 160 /\ at(2) <= 191 /\ IsCont(at(3))
                       /\ IsUtf8From(b, pos + 3)
             ELSE IF (x >= 225 /\ x <= 236) \/ x = 238 \/ x = 239
                  THEN has(3) /\ IsCont(at(2)) /\ IsCont(at(3))
                       /\ IsUtf8From(b, pos + 3)
             ELSE IF x = 237
                  THEN has(3) /\ at(2) >= 128 /\ at(2) <= 159 /\ IsCont(at(3))
                       /\ IsUtf8From(b, pos + 3)
             ELSE IF x = 240
                  THEN has(4) /\ at(2) >= 144 /\ at(2) <= 191 /\ IsCont(at(3))
                       /\ IsCont(at(4)) /\ IsUtf8From(b, pos + 4)
             ELSE IF x >= 241 /\ x <= 243
                  THEN has(4) /\ IsCont(at(2)) /\ IsCont(at(3)) /\ IsCont(at(4))
                       /\ IsUtf8From(b, pos + 4)
             ELSE IF x = 244
                  THEN has(4) /\ at(2) >= 128 /\ at(2) <= 143 /\ IsCont(at(3))
                       /\ IsCont(at(4)) /\ IsUtf8From(b, pos + 4)
             ELSE FALSE

IsUtf8(b) == IsUtf8From(b, 0)

-----------------------------------------------------------------------------
(* The byte reader: ReadBytes::next_u32 and ReadBytes::next_bytes, reading  *)
(* bytes b from the 0-based position pos.                                  *)

\* next_u32(): the next four bytes as a big-endian u32, None if fewer remain
NextU32(b, pos) ==
    IF pos + 4 <= Len(b) THEN Some(FromBeBytes(b, pos)) ELSE None

\* next_bytes(n): the next n bytes, None if fewer remain
NextBytes(b, pos, n) ==
    IF n.hi = 0 /\ pos + n.lo <= Len(b) THEN Some(Slice(b, pos, pos + n.lo)) ELSE None

\* One length-prefixed string field:
\*   let len = bytes.next_u32()?;
\*   let s = String::from_utf8(bytes.next_bytes(len as usize)?.to_vec()).unwrap();
\* The result carries the position after the field.
ReadString(b, pos) ==
    LET len == NextU32(b, pos)
    IN  IF ~IsSome(len) THEN [tag |-> "None", val |-> << >>, pos |-> pos]
        ELSE LET raw == NextBytes(b, pos + 4, len[1])
             IN  IF ~IsSome(raw) THEN [tag |-> "None", val |-> << >>, pos |-> pos]
                 ELSE IF ~IsUtf8(raw[1])
                      THEN [tag |-> "Panic", val |-> << >>, pos |-> pos]
                 ELSE [tag |-> "Some", val |-> raw[1], pos |-> pos + 4 + len[1].lo]

\* One length-prefixed string field as written:
\*   writer.write(&(s.len() as u32).to_be_bytes()); writer.write(s.as_bytes());
WriteString(s) == ToBeBytes(AsU32(Len(s))) \o s

-----------------------------------------------------------------------------
(* KvStateMachine(HashMap<String, String>): a set of <<key, value>> pairs   *)
(* with at most one pair per key.                                          *)

\* HashMap::insert
MapInsert(map, key, value) == {p \in map : p[1] # key} \cup {<< key, value >>}

\* The iteration orders a HashMap may produce: every permutation of its pairs
Orders(map) ==
    {o \in [1..Cardinality(map) -> map] : \A i, j \in DOMAIN o : i # j => o[i] # o[j]}

\* The loop ending quietly where the input ends, instead of returning None
RECURSIVE KvReadEntriesLenient(_, _, _, _)
KvReadEntriesLenient(b, pos, n, map) ==
    IF n = U32Zero \/ pos >= Len(b) THEN Decoded(map)
    ELSE LET key == ReadString(b, pos)
         IN  IF key.tag = "None" THEN DecodeNone
             ELSE IF key.tag = "Panic" THEN DecodePanic
             ELSE LET value == ReadString(b, key.pos)
                  IN  IF value.tag = "None" THEN DecodeNone
                      ELSE IF value.tag = "Panic" THEN DecodePanic
                      ELSE KvReadEntriesLenient(b, value.pos, U32Pred(n),
                                                MapInsert(map, key.val, value.val))

\* The body of the for loop of KvStateMachine::try_from_bytes, n iterations left
RECURSIVE KvReadEntries(_, _, _, _)
KvReadEntries(b, pos, n, map) ==
    IF n = U32Zero THEN Decoded(map)
    ELSE LET key == ReadString(b, pos)
         IN  IF key.tag = "None" THEN DecodeNone
             ELSE IF key.tag = "Panic" THEN DecodePanic
             ELSE LET value == ReadString(b, key.pos)
                  IN  IF value.tag = "None" THEN DecodeNone
                      ELSE IF value.tag = "Panic" THEN DecodePanic
                      ELSE KvReadEntries(b, value.pos, U32Pred(n),
                                         MapInsert(map, key.val, value.val))

\* impl TryFromBytes for KvStateMachine
KvTryFromBytes(b) ==
    LET len == NextU32(b, 0)
    IN  IF ~IsSome(len) THEN DecodeNone ELSE KvReadEntries(b, 4, len[1], {})

\* The pairs of order o from the i-th on, as written by the loop of write_bytes
RECURSIVE KvWriteEntries(_, _)
KvWriteEntries(o, i) ==
    IF i > Len(o) THEN << >>
    ELSE WriteString(o[i][1]) \o WriteString(o[i][2]) \o KvWriteEntries(o, i + 1)

\* impl WriteBytes for KvStateMachine, the map iterated in order o
KvWriteBytes(o) == ToBeBytes(AsU32(Len(o))) \o KvWriteEntries(o, 1)

\* Every byte sequence write_bytes may produce for map
KvEncodings(map) == {KvWriteBytes(o) : o \in Orders(map)}

-----------------------------------------------------------------------------
(* SetValueCommand { key, value, mid }                                     *)

\* impl TryFromBytes for SetValueCommand
CmdTryFromBytes(b) ==
    LET key == ReadString(b, 0)
    IN  IF key.tag = "None" THEN DecodeNone
        ELSE IF key.tag = "Panic" THEN DecodePanic
        ELSE LET value == ReadString(b, key.pos)
             IN  IF value.tag = "None" THEN DecodeNone
                 ELSE IF value.tag = "Panic" THEN DecodePanic
                 ELSE LET mid == ReadString(b, value.pos)
                      IN  IF mid.tag = "None" THEN DecodeNone
                          ELSE IF mid.tag = "Panic" THEN DecodePanic
                          ELSE Decoded([key |-> key.val, value |-> value.val,
                                        mid |-> mid.val])

\* impl WriteBytes for SetValueCommand
CmdWriteBytes(c) == WriteString(c.key) \o WriteString(c.value) \o WriteString(c.mid)

-----------------------------------------------------------------------------
(* The values and bytes the callers draw from                              *)

\* Rust Strings (always well-formed UTF-8): "", "a", "b" and "e-acute" (2 bytes)
StrEmpty == << >>

StrA == << 97 >>

StrB == << 98 >>

StrEAcute == << 195, 169 >>

Keys == {StrEmpty, StrA, StrEAcute}

Values == {StrEmpty, StrB}

MaxEntries == 2

\* Every map of at most MaxEntries pairs over Keys and Values
KvStates ==
    {m \in SUBSET (Keys \X Values) :
        /\ Cardinality(m) <= MaxEntries
        /\ \A p, q \in m : p[1] = q[1] => p = q}

Commands == [key : {StrA, StrEAcute}, value : Values, mid : {StrEmpty, StrA}]

\* Bytes of hostile input: zero, a small count, ASCII, a UTF-8 lead byte, a
\* continuation byte and a byte that never occurs in UTF-8
RawAlphabet == {0, 1, 97, 195, 169, 255}

MaxRaw == 4

MaxTrailer == 2

\* Every byte sequence over RawAlphabet of length at most n
SeqsUpTo(n) == UNION {[1..k -> RawAlphabet] : k \in 0..n}

Prefixes(b) == {Slice(b, 0, k) : k \in 0..Len(b)}

\* b with one byte replaced by a byte of RawAlphabet
Corruptions(b) ==
    {[b EXCEPT ![p] = x] : p \in DOMAIN b, x \in RawAlphabet}

KvAllEncodings == UNION {KvEncodings(m) : m \in KvStates}

CmdAllEncodings == {CmdWriteBytes(c) : c \in Commands}

\* Hostile input: short arbitrary sequences, and truncated or corrupted encodings
RawInputs(encodings) ==
    SeqsUpTo(MaxRaw)
    \cup UNION {Prefixes(e) : e \in encodings}
    \cup UNION {Corruptions(e) : e \in encodings}

-----------------------------------------------------------------------------
(* The state of a new storage: RamStorage::new                             *)

\* pub fn new(init_state_machine: S) -> RamStorage<S>
StorageNew(sm) ==
    /\ log = << >>
    /\ current_term = 0
    /\ voted_for = None
    /\ snapshot_bytes = << >>
    /\ snapshot_last_index = 0
    /\ snapshot_last_term = 0
    /\ snapshot_chunk_bytes = << >>
    /\ init_state_machine = sm
    /\ panicked = FALSE
    /\ call = [op |-> "new", args |-> << >>, ret |-> << >>]
    /\ live = 0
    /\ appended = 0

\* A new storage whose initial state machine is the empty map
StorageInit == StorageNew({})

NoXfer ==
    [sm |-> {}, bytes |-> << >>, chunks |-> << >>, split |-> TRUE, delivered |-> {},
     in_order |-> TRUE, done |-> FALSE]

NoCodec == [kind |-> "none", value |-> None, bytes |-> << >>]

NoCodecOut == [stage |-> "init", bytes |-> << >>, result |-> DecodeNone]

-----------------------------------------------------------------------------
(* Vec operations used by RamStorage                                       *)

\* resize_with filling the new positions with 1
ResizeWithOne(v, new_len) == [i \in 1..new_len |-> IF i <= Len(v) THEN v[i] ELSE 1]

\* Vec::resize_with(new_len, || 0u8): truncates or extends with zeros
ResizeWithZero(v, new_len) == [i \in 1..new_len |-> IF i <= Len(v) THEN v[i] ELSE 0]

\* splice that inserts data at start and removes nothing
SpliceInserting(v, start, end, data) ==
    Slice(v, 0, start) \o data \o Slice(v, start, Len(v))

\* Vec::splice(start..end, data) for 0 <= start <= end <= len
Splice(v, start, end, data) == Slice(v, 0, start) \o data \o Slice(v, end, Len(v))

\* Whether Vec::drain(from..to) is in range (it panics otherwise)
DrainInRange(v, from, to) == from <= to /\ to <= Len(v)

\* What Vec::drain(from..to) leaves in the vector
Drain(v, from, to) == Slice(v, 0, from) \o Slice(v, to, Len(v))

\* Vec::get with the index taken as 1-based
VecGetFromOne(v, index) ==
    IF index >= 1 /\ index <= Len(v) THEN Some(v[index]) ELSE None

\* Vec::get(index)
VecGet(v, index) == IF index < Len(v) THEN Some(v[index + 1]) ELSE None

-----------------------------------------------------------------------------
(* The codec of RaftStateMachine<KvStateMachine>, as RamStorage calls it   *)

\* RaftStateMachine::try_from_slice / try_from_bytes (my_raft), taken as the
\* decoder of the inner KvStateMachine
RaftTryFromSlice(b) == KvTryFromBytes(b)

\* RaftStateMachine::write_bytes_with_writer (my_raft), taken as the encoder of
\* the inner KvStateMachine, the map iterated in order o
RaftWriteBytes(o) == KvWriteBytes(o)

-----------------------------------------------------------------------------
(* RamStorage: reads                                                       *)

\* fn log_entry(&self, index)
log_entry(index) == VecGet(log, index)

\* fn num_log_entries(&self)
num_log_entries == Len(log)

\* snapshot() falling back to an empty state machine, not to the initial one
SnapshotOrEmpty(bytes, init) ==
    LET r == RaftTryFromSlice(bytes)
    IN  IF r.tag = "None" THEN Decoded({}) ELSE r

\* The body of snapshot(): the decoded payload, or a clone of the initial state
SnapshotOf(bytes, init) ==
    LET r == RaftTryFromSlice(bytes)
    IN  IF r.tag = "None" THEN Decoded(init) ELSE r

\* fn snapshot(&self)
snapshot == SnapshotOf(snapshot_bytes, init_state_machine)

\* fn total_snapshot_bytes(&self)
total_snapshot_bytes == Len(snapshot_bytes)

-----------------------------------------------------------------------------
(* RamStorage: calls that change state.  Each records itself in call.      *)

Called(op, args, ret) == [op |-> op, args |-> args, ret |-> ret]

logVars == << log, live, appended >>

snapVars == << snapshot_bytes, snapshot_last_index, snapshot_last_term,
               snapshot_chunk_bytes >>

\* fn add_log_entry(&mut self, entry)
add_log_entry(entry) ==
    /\ ~panicked
    /\ log' = Append(log, entry)
    /\ live' = live + 1
    /\ appended' = appended + 1
    /\ call' = Called("add_log_entry", << entry >>, None)
    /\ UNCHANGED << current_term, voted_for, snapVars, init_state_machine, panicked >>

\* drain(..=index): the entry at index is removed as well
LogAfterRemoveThrough(v, index) ==
    Drain(v, 0, IF index < Len(v) THEN index + 1 ELSE Len(v))

\* The log after remove_log_entries_before(index): self.log.drain(..index)
LogAfterRemoveBefore(v, index) == Drain(v, 0, index)

\* fn remove_log_entries_before(&mut self, index)
remove_log_entries_before(index) ==
    /\ ~panicked
    /\ call' = Called("remove_log_entries_before", << index >>, None)
    /\ IF DrainInRange(log, 0, index)
       THEN /\ log' = LogAfterRemoveBefore(log, index)
            /\ live' = live - Cardinality({p \in 0..(Len(log) - 1) : p < index})
            /\ UNCHANGED panicked
       ELSE /\ panicked' = TRUE
            /\ UNCHANGED << log, live >>
    /\ UNCHANGED << appended, current_term, voted_for, snapVars, init_state_machine >>

\* drain(index + 1..): the entry at index is kept
LogAfterRemoveAfter(v, index) ==
    Drain(v, IF index < Len(v) THEN index + 1 ELSE Len(v), Len(v))

\* The log after remove_log_entries_starting_at(index): self.log.drain(index..)
LogAfterRemoveStartingAt(v, index) == Drain(v, index, Len(v))

\* fn remove_log_entries_starting_at(&mut self, index)
remove_log_entries_starting_at(index) ==
    /\ ~panicked
    /\ call' = Called("remove_log_entries_starting_at", << index >>, None)
    /\ IF DrainInRange(log, index, Len(log))
       THEN /\ log' = LogAfterRemoveStartingAt(log, index)
            /\ live' = live - Cardinality({p \in 0..(Len(log) - 1) : p >= index})
            /\ UNCHANGED panicked
       ELSE /\ panicked' = TRUE
            /\ UNCHANGED << log, live >>
    /\ UNCHANGED << appended, current_term, voted_for, snapVars, init_state_machine >>

\* set_snapshot with last_index and last_term stored in each other's field
set_snapshot_swapped(last_index, last_term, o) ==
    /\ ~panicked
    /\ snapshot_last_index' = last_term
    /\ snapshot_last_term' = last_index
    /\ snapshot_bytes' = RaftWriteBytes(o)
    /\ call' = Called("set_snapshot", << last_index, last_term, {o[i] : i \in DOMAIN o} >>,
                      None)
    /\ UNCHANGED << logVars, current_term, voted_for, snapshot_chunk_bytes,
                    init_state_machine, panicked >>

\* set_snapshot without the clear(): the encoding lands after the old payload
set_snapshot_appending(last_index, last_term, o) ==
    /\ ~panicked
    /\ snapshot_last_index' = last_index
    /\ snapshot_last_term' = last_term
    /\ snapshot_bytes' = snapshot_bytes \o KvWriteBytes(o)
    /\ call' = Called("set_snapshot", << last_index, last_term, {o[k] : k \in DOMAIN o} >>, None)
    /\ UNCHANGED << logVars, current_term, voted_for, snapshot_chunk_bytes,
                    init_state_machine, panicked >>

\* fn set_snapshot(&mut self, last_index, last_term, snapshot), the snapshot's
\* map iterated in order o
set_snapshot(last_index, last_term, o) ==
    /\ ~panicked
    /\ snapshot_last_index' = last_index
    /\ snapshot_last_term' = last_term
    /\ snapshot_bytes' = RaftWriteBytes(o)
    /\ call' = Called("set_snapshot", << last_index, last_term, {o[i] : i \in DOMAIN o} >>,
                      None)
    /\ UNCHANGED << logVars, current_term, voted_for, snapshot_chunk_bytes,
                    init_state_machine, panicked >>

\* The chunk written at the end of what the buffer holds below offset, with no
\* zero bytes put where nothing was received
ChunkBufferUnfilled(buf, offset, data) ==
    Slice(buf, 0, IF offset < Len(buf) THEN offset ELSE Len(buf)) \o data

\* The chunk buffer after add_new_snapshot_chunk(offset, data)
ChunkBufferAfter(buf, offset, data) ==
    LET start == offset
        end == start + Len(data)
    IN  Splice(ResizeWithZero(buf, end), start, end, data)

\* fn add_new_snapshot_chunk(&mut self, offset, data)
add_new_snapshot_chunk(offset, data) ==
    /\ ~panicked
    /\ snapshot_chunk_bytes' = ChunkBufferAfter(snapshot_chunk_bytes, offset, data)
    /\ call' = Called("add_new_snapshot_chunk", << offset, data >>, None)
    /\ UNCHANGED << logVars, current_term, voted_for, snapshot_bytes,
                    snapshot_last_index, snapshot_last_term, init_state_machine,
                    panicked >>

\* try_use_chunks_as_new_snapshot with the buffer cloned instead of taken
try_use_chunks_cloned(last_index, last_term) ==
    /\ ~panicked
    /\ LET r == RaftTryFromSlice(snapshot_chunk_bytes)
       IN  /\ call' = Called("try_use_chunks_as_new_snapshot",
                             << last_index, last_term >>, r.val)
           /\ IF r.tag = "Some"
              THEN /\ snapshot_bytes' = snapshot_chunk_bytes
                   /\ snapshot_last_index' = last_index
                   /\ snapshot_last_term' = last_term
                   /\ UNCHANGED << snapshot_chunk_bytes, panicked >>
              ELSE /\ panicked' = (r.tag = "Panic")
                   /\ UNCHANGED snapVars
    /\ UNCHANGED << logVars, current_term, voted_for, init_state_machine >>

\* fn try_use_chunks_as_new_snapshot(&mut self, last_index, last_term)
try_use_chunks_as_new_snapshot(last_index, last_term) ==
    /\ ~panicked
    /\ LET r == RaftTryFromSlice(snapshot_chunk_bytes)
       IN  /\ call' = Called("try_use_chunks_as_new_snapshot",
                             << last_index, last_term >>, r.val)
           /\ IF r.tag = "Some"
              THEN /\ snapshot_bytes' = snapshot_chunk_bytes
                   /\ snapshot_chunk_bytes' = << >>
                   /\ snapshot_last_index' = last_index
                   /\ snapshot_last_term' = last_term
                   /\ UNCHANGED panicked
              ELSE /\ panicked' = (r.tag = "Panic")
                   /\ UNCHANGED snapVars
    /\ UNCHANGED << logVars, current_term, voted_for, init_state_machine >>

\* fn snapshot(&self) called: the read returns the decoded payload or a clone
\* of the initial state machine, and panics where the decoding does
call_snapshot ==
    /\ ~panicked
    /\ LET r == SnapshotOf(snapshot_bytes, init_state_machine)
       IN  /\ call' = Called("snapshot", << >>, r.val)
           /\ panicked' = (r.tag = "Panic")
    /\ UNCHANGED << logVars, current_term, voted_for, snapVars, init_state_machine >>

\* fn set_voted_for(&mut self, voted_for: Option<u32>)
set_voted_for(v) ==
    /\ ~panicked
    /\ voted_for' = v
    /\ call' = Called("set_voted_for", << v >>, None)
    /\ UNCHANGED << logVars, current_term, snapVars, init_state_machine, panicked >>

\* set_current_term forgetting the vote, as a Raft node does on a new term
set_current_term_resetting(t) ==
    /\ ~panicked
    /\ current_term' = t
    /\ voted_for' = None
    /\ call' = Called("set_current_term", << t >>, None)
    /\ UNCHANGED << logVars, snapVars, init_state_machine, panicked >>

\* fn set_current_term(&mut self, current_term: u32)
set_current_term(t) ==
    /\ ~panicked
    /\ current_term' = t
    /\ call' = Called("set_current_term", << t >>, None)
    /\ UNCHANGED << logVars, voted_for, snapVars, init_state_machine, panicked >>

\* The search without the rev(): the first Config entry among the first i
\* entries of v gives its position
FirstConfigFrom(v, i) ==
    LET at == {p \in 0..(i - 1) : v[p + 1].entry_type = "Config"}
    IN  IF at = {} THEN None ELSE Some(CHOOSE p \in at : \A q \in at : p <= q)

\* self.log.iter().enumerate().rev().filter_map(..).next() over the first i
\* entries of v: the entries are visited from the last one down, and the first
\* Config entry met gives its position
RECURSIVE LastConfigFrom(_, _)
LastConfigFrom(v, i) ==
    IF i = 0 THEN None
    ELSE IF v[i].entry_type = "Config" THEN Some(i - 1)
    ELSE LastConfigFrom(v, i - 1)

\* The result of get_index_of_last_config_in_log() on log v
LastConfigOf(v) == LastConfigFrom(v, Len(v))

\* fn get_index_of_last_config_in_log(&self) called
get_index_of_last_config_in_log ==
    /\ ~panicked
    /\ call' = Called("get_index_of_last_config_in_log", << >>, LastConfigOf(log))
    /\ UNCHANGED << logVars, current_term, voted_for, snapVars, init_state_machine,
                    panicked >>

\* A view that leaves out the entry at start_index
LogTailAfter(v, start_index) == SubSeq(v, start_index + 2, Len(v))

\* &self.log[start_index..] for start_index <= len
LogTail(v, start_index) == SubSeq(v, start_index + 1, Len(v))

\* fn log_entries(&self, start_index) called: the slice panics when start_index
\* is beyond the length
log_entries(start_index) ==
    /\ ~panicked
    /\ IF start_index <= Len(log)
       THEN /\ call' = Called("log_entries", << start_index >>,
                              Some(LogTail(log, start_index)))
            /\ UNCHANGED panicked
       ELSE /\ call' = Called("log_entries", << start_index >>, None)
            /\ panicked' = TRUE
    /\ UNCHANGED << logVars, current_term, voted_for, snapVars, init_state_machine >>

-----------------------------------------------------------------------------
(* The codec on its own: a value is written and read back with trailing    *)
(* bytes after it, or hostile bytes are read.                              *)

CodecInit ==
    /\ StorageInit
    /\ xfer = NoXfer
    /\ cout = NoCodecOut
    /\ \/ \E m \in KvStates, t \in SeqsUpTo(MaxTrailer) :
             cin = [kind |-> "kv", value |-> Some(m), bytes |-> t]
       \/ \E c \in Commands, t \in SeqsUpTo(MaxTrailer) :
             cin = [kind |-> "cmd", value |-> Some(c), bytes |-> t]
       \/ \E b \in RawInputs(KvAllEncodings) :
             cin = [kind |-> "kv", value |-> None, bytes |-> b]
       \/ \E b \in RawInputs(CmdAllEncodings) :
             cin = [kind |-> "cmd", value |-> None, bytes |-> b]

\* write_bytes of the value under test, followed by the trailing bytes
CodecWrite ==
    /\ cout.stage = "init"
    /\ IsSome(cin.value)
    /\ \E e \in (IF cin.kind = "kv" THEN KvEncodings(cin.value[1])
                                    ELSE {CmdWriteBytes(cin.value[1])}) :
          cout' = [stage |-> "written", bytes |-> e \o cin.bytes, result |-> DecodeNone]
    /\ UNCHANGED << storageVars, panicked, call, live, appended, xfer, cin >>

\* try_from_bytes of the bytes written, or of the hostile bytes
CodecRead ==
    /\ \/ cout.stage = "written"
       \/ cout.stage = "init" /\ ~IsSome(cin.value)
    /\ LET b == IF cout.stage = "written" THEN cout.bytes ELSE cin.bytes
           r == IF cin.kind = "kv" THEN KvTryFromBytes(b) ELSE CmdTryFromBytes(b)
       IN  cout' = [stage |-> "read", bytes |-> b, result |-> r]
    /\ UNCHANGED << storageVars, panicked, call, live, appended, xfer, cin >>

CodecNext == CodecWrite \/ CodecRead

SpecCodec == CodecInit /\ [][CodecNext]_vars

-----------------------------------------------------------------------------
(* The log store driven by a caller: appends and truncations from both     *)
(* ends, with in-range and out-of-range indices.                           *)

MaxAppends == 10

\* LogEntryType; no log operation of this specification reads it
EntryTypes == {"Command"}

LogInit ==
    /\ StorageInit
    /\ xfer = NoXfer
    /\ cin = NoCodec
    /\ cout = NoCodecOut

\* The caller appends a new entry; tag stands for its term and payload
LogAdd ==
    /\ appended < MaxAppends
    /\ \E ty \in EntryTypes : add_log_entry([tag |-> appended, entry_type |-> ty])
    /\ UNCHANGED << xfer, cin, cout >>

LogRemoveBefore ==
    /\ \E index \in 0..(MaxAppends + 1) : remove_log_entries_before(index)
    /\ UNCHANGED << xfer, cin, cout >>

LogRemoveStartingAt ==
    /\ \E index \in 0..(MaxAppends + 1) : remove_log_entries_starting_at(index)
    /\ UNCHANGED << xfer, cin, cout >>

LogNext == LogAdd \/ LogRemoveBefore \/ LogRemoveStartingAt

SpecLog == LogInit /\ [][LogNext]_vars

\* The tags of the entries of the log, in order
Tags(v) == [i \in DOMAIN v |-> v[i].tag]

\* C5: num_log_entries() is the number of entries appended and not removed, and
\* log_entry(i) is present exactly for the positions i < num_log_entries().
C5_LogContiguity ==
    /\ num_log_entries = live
    /\ \A i \in 0..(MaxAppends + 1) : IsSome(log_entry(i)) <=> i < num_log_entries

\* C5 witness: a log that was appended to and truncated from both ends
C5_Witness ==
    /\ ~panicked
    /\ appended = 7
    /\ Tags(log) = << 2, 3, 6 >>

\* C6 as claimed: remove_log_entries_starting_at(index) keeps exactly the
\* positions below index and, for every index >= the length, changes nothing
\* and does not fail.
C6_Original ==
    [][call'.op = "remove_log_entries_starting_at" =>
          LET index == call'.args[1]
          IN  /\ ~panicked'
              /\ log' = IF index >= Len(log) THEN log ELSE SubSeq(log, 1, index)]_vars

\* C6 amended: for index <= the length, remove_log_entries_starting_at(index)
\* keeps exactly the positions below index, unchanged and in order (nothing is
\* removed when index is the length); for index > the length the call panics.
C6_RemoveStartingAt ==
    [][call'.op = "remove_log_entries_starting_at" =>
          LET index == call'.args[1]
          IN  IF index <= Len(log)
              THEN /\ ~panicked'
                   /\ Len(log') = index
                   /\ \A p \in 0..(index - 1) : VecGet(log', p) = log_entry(p)
                   /\ index = Len(log) => log' = log
              ELSE panicked' /\ log' = log]_vars

\* C6 witness: 5 entries appended, truncated at 3, 2 new entries appended
C6_Witness ==
    /\ ~panicked
    /\ appended = 7
    /\ num_log_entries = 5
    /\ Tags(log) = << 0, 1, 2, 5, 6 >>

\* C7: for index <= the length, remove_log_entries_before(index) removes exactly
\* the positions below index: the entry formerly at p >= index is at p - index,
\* and index 0 changes nothing.
C7_RemoveBefore ==
    [][call'.op = "remove_log_entries_before" /\ call'.args[1] <= Len(log) =>
          LET index == call'.args[1]
          IN  /\ ~panicked'
              /\ Len(log') = Len(log) - index
              /\ \A p \in index..(Len(log) - 1) :
                    VecGet(log', p - index) = log_entry(p)
              /\ index = 0 => log' = log]_vars

\* C7 witness: entries 0..9 appended, the prefix truncated at 6
C7_Witness ==
    /\ ~panicked
    /\ call = Called("remove_log_entries_before", << 6 >>, None)
    /\ appended = 10
    /\ num_log_entries = 4
    /\ Tags(log) = << 6, 7, 8, 9 >>
    /\ log_entry(0) = Some([tag |-> 6, entry_type |-> "Command"])

-----------------------------------------------------------------------------
(* The snapshot manager driven by a caller: snapshots installed directly,  *)
(* chunks received at any offset and in any order, and try_use called at   *)
(* any time.                                                               *)

MaxIndex == 2

MaxTerm == 1

MaxChunk == 5

\* The snapshots the caller installs or sends
SnapStates == {{}, {<< StrA, StrB >>}, {<< StrA, StrEmpty >>}}

SnapEncodings == UNION {KvEncodings(m) : m \in SnapStates}

Min(a, b) == IF a < b THEN a ELSE b

\* The chunks of at most n bytes that b is cut into, as <<offset, data>>
ChunksOf(b, n) ==
    {<< i * n, Slice(b, i * n, Min(i * n + n, Len(b))) >> : i \in 0..(Len(b) \div n)}

\* What the network may deliver: chunks of encoded snapshots, and a chunk that
\* puts a byte that is not UTF-8 where a string is expected
ChunkInputs ==
    UNION {ChunksOf(e, n) : e \in SnapEncodings, n \in (MaxChunk - 1)..MaxChunk}
    \cup {<< 8, << 255 >> >>}

SnapInit ==
    /\ StorageInit
    /\ xfer = NoXfer
    /\ cin = NoCodec
    /\ cout = NoCodecOut

SnapSet ==
    /\ \E last_index \in 0..MaxIndex, last_term \in 0..MaxTerm, m \in SnapStates :
          \E o \in Orders(m) : set_snapshot(last_index, last_term, o)
    /\ UNCHANGED << xfer, cin, cout >>

SnapChunk ==
    /\ \E c \in ChunkInputs : add_new_snapshot_chunk(c[1], c[2])
    /\ UNCHANGED << xfer, cin, cout >>

SnapTryUse ==
    /\ \E last_index \in 0..MaxIndex, last_term \in 0..MaxTerm :
          try_use_chunks_as_new_snapshot(last_index, last_term)
    /\ UNCHANGED << xfer, cin, cout >>

SnapNext == SnapSet \/ SnapChunk \/ SnapTryUse

SpecSnap == SnapInit /\ [][SnapNext]_vars

\* C3: when the chunk buffer decodes, try_use_chunks_as_new_snapshot makes its
\* bytes the installed payload, sets the metadata to its arguments, empties the
\* chunk buffer and returns the decoded state, which snapshot() then returns too.
C3_Promote ==
    [][LET decoded == RaftTryFromSlice(snapshot_chunk_bytes)
       IN  call'.op = "try_use_chunks_as_new_snapshot" /\ decoded.tag = "Some" =>
              /\ ~panicked'
              /\ snapshot_bytes' = snapshot_chunk_bytes
              /\ snapshot_last_index' = call'.args[1]
              /\ snapshot_last_term' = call'.args[2]
              /\ snapshot_chunk_bytes' = << >>
              /\ call'.ret = decoded.val
              /\ SnapshotOf(snapshot_bytes', init_state_machine') = decoded]_vars

\* C3 witness: a received snapshot was promoted
C3_Witness ==
    /\ call = Called("try_use_chunks_as_new_snapshot", << 2, 1 >>,
                     Some({<< StrA, StrB >>}))
    /\ snapshot_bytes \in KvEncodings({<< StrA, StrB >>})
    /\ snapshot_last_index = 2
    /\ snapshot_last_term = 1
    /\ snapshot_chunk_bytes = << >>

\* C4 as claimed: when the chunk buffer does not decode,
\* try_use_chunks_as_new_snapshot returns None and changes nothing.
C4_Original ==
    [][call'.op = "try_use_chunks_as_new_snapshot"
       /\ RaftTryFromSlice(snapshot_chunk_bytes).tag # "Some" =>
          /\ ~panicked'
          /\ call'.ret = None
          /\ UNCHANGED snapVars]_vars

\* C10 as claimed: snapshot_last_index() and snapshot_last_term() never decrease.
C10_Original ==
    [][/\ snapshot_last_index' >= snapshot_last_index
       /\ snapshot_last_term' >= snapshot_last_term]_vars

\* C10 amended: the metadata is what the caller passed last. set_snapshot and a
\* try_use_chunks_as_new_snapshot whose buffer decodes set it to their
\* arguments, every other call leaves it as it was; so it does not decrease in
\* a step whose arguments are not below the current values.
C10_MetadataFollowsCaller ==
    [][LET args == call'.args
           sets == \/ call'.op = "set_snapshot"
                   \/ /\ call'.op = "try_use_chunks_as_new_snapshot"
                      /\ RaftTryFromSlice(snapshot_chunk_bytes).tag = "Some"
       IN  /\ sets => /\ snapshot_last_index' = args[1]
                      /\ snapshot_last_term' = args[2]
                      /\ (args[1] >= snapshot_last_index
                             => snapshot_last_index' >= snapshot_last_index)
                      /\ (args[2] >= snapshot_last_term
                             => snapshot_last_term' >= snapshot_last_term)
           /\ ~sets => UNCHANGED << snapshot_last_index, snapshot_last_term >>]_vars

\* C10 witness: set_snapshot moved the metadata
C10_Witness ==
    /\ call.op = "set_snapshot"
    /\ call.args[1] = 2
    /\ call.args[2] = 0
    /\ snapshot_last_index = 2
    /\ snapshot_last_term = 0

\* C11: set_snapshot replaces the installed payload by the encoding of the state
\* it is given (nothing of the old payload stays), sets the metadata to its
\* arguments, and afterwards total_snapshot_bytes() is the length of that
\* encoding and snapshot() returns the state; and the payload and the metadata
\* only ever change together, in one install.
C11_SetSnapshot ==
    [][LET args == call'.args
           installs == \/ call'.op = "set_snapshot"
                       \/ /\ call'.op = "try_use_chunks_as_new_snapshot"
                          /\ IsSome(call'.ret)
       IN  /\ call'.op = "set_snapshot" =>
                 /\ ~panicked'
                 /\ snapshot_bytes' \in KvEncodings(args[3])
                 /\ snapshot_last_index' = args[1]
                 /\ snapshot_last_term' = args[2]
                 /\ \E e \in KvEncodings(args[3]) : Len(snapshot_bytes') = Len(e)
                 /\ SnapshotOf(snapshot_bytes', init_state_machine') = Decoded(args[3])
           /\ installs => /\ snapshot_last_index' = args[1]
                          /\ snapshot_last_term' = args[2]
           /\ ~installs => UNCHANGED << snapshot_bytes, snapshot_last_index,
                                        snapshot_last_term >>]_vars

\* C11 witness: a snapshot of one pair was installed with metadata (1, 1)
C11_Witness ==
    /\ call = Called("set_snapshot", << 1, 1, {<< StrA, StrEmpty >>} >>, None)
    /\ snapshot_bytes \in KvEncodings({<< StrA, StrEmpty >>})
    /\ total_snapshot_bytes = 13
    /\ snapshot = Decoded({<< StrA, StrEmpty >>})
    /\ snapshot_last_index = 1
    /\ snapshot_last_term = 1

\* C15 as claimed: after add_new_snapshot_chunk(o1, a) and then
\* add_new_snapshot_chunk(o2, b), every position of b's range holds b's byte
\* and every position of a's range outside b's range still holds a's byte.
C15_Original ==
    [][call.op = "add_new_snapshot_chunk" /\ call'.op = "add_new_snapshot_chunk" =>
          LET o1 == call.args[1]
              a == call.args[2]
              o2 == call'.args[1]
              b == call'.args[2]
          IN  /\ \A p \in o2..(o2 + Len(b) - 1) :
                    VecGet(snapshot_chunk_bytes', p) = Some(b[p - o2 + 1])
              /\ \A p \in o1..(o1 + Len(a) - 1) :
                    p \notin o2..(o2 + Len(b) - 1) =>
                       VecGet(snapshot_chunk_bytes', p) = Some(a[p - o1 + 1])]_vars

\* C16: after add_new_snapshot_chunk(o, bytes) the buffer is at least
\* o + len(bytes) long, holds bytes at positions o onwards, keeps the bytes it
\* had below o, holds zero at the positions below o it did not have, and the
\* same call made again would leave it as it is.
C16_ChunkWrite ==
    [][call'.op = "add_new_snapshot_chunk" =>
          LET o == call'.args[1]
              bytes == call'.args[2]
              old == snapshot_chunk_bytes
              new == snapshot_chunk_bytes'
          IN  /\ ~panicked'
              /\ Len(new) >= o + Len(bytes)
              /\ \A p \in o..(o + Len(bytes) - 1) : new[p + 1] = bytes[p - o + 1]
              /\ \A p \in 0..(o - 1) :
                    new[p + 1] = IF p < Len(old) THEN old[p + 1] ELSE 0
              /\ ChunkBufferAfter(new, o, bytes) = new]_vars

\* C16 witness: one byte written at offset 8 into a buffer of five bytes
C16_Witness ==
    /\ call = Called("add_new_snapshot_chunk", << 8, << 255 >> >>, None)
    /\ snapshot_chunk_bytes = << 0, 0, 0, 1, 0, 0, 0, 0, 255 >>

\* C17 as claimed: after set_snapshot the chunk buffer is empty, so that bytes
\* received before it cannot be promoted afterwards.
C17_Original ==
    [][call'.op = "set_snapshot" => snapshot_chunk_bytes' = << >>]_vars

\* C20: a byte sequence whose first four bytes are zero decodes to the empty
\* map whatever follows them; so the buffer that one chunk at an offset of 4
\* or more makes of an empty buffer decodes, and try_use_chunks_as_new_snapshot
\* promotes it, although no byte below the offset was received.
C20_ZeroPrefixDecodes ==
    [][LET buf == snapshot_chunk_bytes
           zero_prefix(b) == Len(b) >= 4 /\ \A i \in 1..4 : b[i] = 0
       IN  /\ zero_prefix(buf) => KvTryFromBytes(buf) = Decoded({})
           /\ call'.op = "add_new_snapshot_chunk" /\ buf = << >> /\ call'.args[1] >= 4 =>
                 /\ zero_prefix(snapshot_chunk_bytes')
                 /\ RaftTryFromSlice(snapshot_chunk_bytes') = Decoded({})
           /\ call'.op = "try_use_chunks_as_new_snapshot" /\ zero_prefix(buf) =>
                 /\ call'.ret = Some({})
                 /\ snapshot_bytes' = buf
                 /\ ~panicked']_vars

\* C20 witness: a buffer made of one byte received at offset 8 was promoted
C20_Witness ==
    /\ call.op = "try_use_chunks_as_new_snapshot"
    /\ call.ret = Some({})
    /\ snapshot_bytes = << 0, 0, 0, 0, 0, 0, 0, 0, 255 >>
    /\ snapshot_chunk_bytes = << >>

-----------------------------------------------------------------------------
(* One chunked transfer: a sender encodes a snapshot and cuts it into      *)
(* chunks, as tests::snapshot_chunks does, possibly with one more chunk    *)
(* that overlaps or repeats the others; the chunks arrive once each, in    *)
(* any order, and the receiver calls try_use at any time until it succeeds.*)

\* The chunks of at most n bytes that b is cut into, in offset order:
\*   for i in 0..((bytes.len() / chunk_size) + 1)
ChunkSeq(b, n) ==
    [i \in 1..((Len(b) \div n) + 1) |->
        << (i - 1) * n, Slice(b, (i - 1) * n, Min((i - 1) * n + n, Len(b))) >>]

\* chs with chunk c put after the chunks whose offset is not above c's
WithExtra(chs, c) ==
    LET k == Cardinality({i \in DOMAIN chs : chs[i][1] <= c[1]})
    IN  SubSeq(chs, 1, k) \o << c >> \o SubSeq(chs, k + 1, Len(chs))

\* The ways the sender may split b into consecutive chunks
PlainChunkings(b) == {ChunkSeq(b, n) : n \in (MaxChunk - 1)..MaxChunk}

\* Every way the sender may cut b: a split, or a split and one more chunk
Chunkings(b) ==
    PlainChunkings(b) \cup
    {WithExtra(chs, << o, Slice(b, o, Min(o + MaxChunk - 1, Len(b))) >>) :
        chs \in PlainChunkings(b), o \in 0..(Len(b) - 1)}

\* The bytes of the encoding delivered so far, when the chunks came in order:
\* the end of the last delivered chunk
DeliveredEnd ==
    IF xfer.delivered = {} THEN 0
    ELSE LET last == xfer.chunks[Cardinality(xfer.delivered)]
         IN  last[1] + Len(last[2])

XferInit ==
    /\ StorageInit
    /\ cin = NoCodec
    /\ cout = NoCodecOut
    /\ \E m \in SnapStates :
          \E e \in KvEncodings(m) :
             \E chs \in Chunkings(e) :
                xfer = [sm |-> m, bytes |-> e, chunks |-> chs,
                        split |-> (chs \in PlainChunkings(e)), delivered |-> {},
                        in_order |-> TRUE, done |-> FALSE]

\* A chunk not yet delivered arrives
XferDeliver ==
    /\ ~xfer.done
    /\ \E i \in (DOMAIN xfer.chunks) \ xfer.delivered :
          /\ add_new_snapshot_chunk(xfer.chunks[i][1], xfer.chunks[i][2])
          /\ xfer' = [xfer EXCEPT !.delivered = @ \cup {i},
                                  !.in_order = @ /\ i = Cardinality(xfer.delivered) + 1]
    /\ UNCHANGED << cin, cout >>

\* The receiver tries to finish the transfer
XferTryUse ==
    /\ ~xfer.done
    /\ try_use_chunks_as_new_snapshot(MaxIndex, MaxTerm)
    /\ xfer' = [xfer EXCEPT !.done = IsSome(call'.ret)]
    /\ UNCHANGED << cin, cout >>

XferNext == XferDeliver \/ XferTryUse

SpecTransfer == XferInit /\ [][XferNext]_vars

\* C1 as claimed: once every chunk has been delivered, in whatever order,
\* try_use_chunks_as_new_snapshot returns the state that was sent.
C1_Original ==
    [][call'.op = "try_use_chunks_as_new_snapshot"
       /\ xfer.delivered = DOMAIN xfer.chunks =>
          call'.ret = Some(xfer.sm)]_vars

\* C2 as claimed: with the encoding split into at least two chunks and only a
\* strict prefix of them delivered, in offset order,
\* try_use_chunks_as_new_snapshot returns None.
C2_Original ==
    [][call'.op = "try_use_chunks_as_new_snapshot"
       /\ xfer.split
       /\ Len(xfer.chunks) >= 2
       /\ xfer.in_order
       /\ Cardinality(xfer.delivered) < Len(xfer.chunks) =>
          call'.ret = None]_vars

\* C2 amended: with the encoding split into at least two chunks and only a
\* strict prefix of them delivered, in offset order,
\* try_use_chunks_as_new_snapshot returns None and changes nothing, provided
\* at least one byte of the encoding has not been delivered yet.
C2_PartialNeverFinalizes ==
    [][call'.op = "try_use_chunks_as_new_snapshot"
       /\ xfer.split
       /\ Len(xfer.chunks) >= 2
       /\ xfer.in_order
       /\ Cardinality(xfer.delivered) < Len(xfer.chunks)
       /\ DeliveredEnd < Len(xfer.bytes) =>
          /\ call'.ret = None
          /\ ~panicked'
          /\ UNCHANGED snapVars]_vars

\* C2 witness: try_use was called with two of at least three chunks delivered
\* and more bytes still to come
C2_Witness ==
    /\ call.op = "try_use_chunks_as_new_snapshot"
    /\ call.ret = None
    /\ xfer.sm = {<< StrA, StrB >>}
    /\ xfer.split
    /\ Len(xfer.chunks) >= 3
    /\ xfer.in_order
    /\ xfer.delivered = {1, 2}
    /\ DeliveredEnd < Len(xfer.bytes)
    /\ snapshot_chunk_bytes = Slice(xfer.bytes, 0, DeliveredEnd)

\* C13: when the encoding is cut into consecutive chunks of one size (the last
\* one shorter or empty) and all of them are passed to add_new_snapshot_chunk
\* in ascending offset order on a new storage, the chunk buffer is the encoding
\* byte for byte and try_use_chunks_as_new_snapshot returns the state.
C13_InOrderTransfer ==
    [][LET complete == /\ xfer.split
                       /\ xfer.in_order
                       /\ xfer.delivered = DOMAIN xfer.chunks
                       /\ ~xfer.done
       IN  complete =>
              /\ snapshot_chunk_bytes = xfer.bytes
              /\ call'.op = "try_use_chunks_as_new_snapshot" =>
                    /\ call'.ret = Some(xfer.sm)
                    /\ ~panicked'
                    /\ snapshot_bytes' = xfer.bytes]_vars

\* C13 witness: three chunks delivered in offset order and promoted
C13_Witness ==
    /\ call = Called("try_use_chunks_as_new_snapshot", << MaxIndex, MaxTerm >>,
                     Some({<< StrA, StrB >>}))
    /\ xfer.sm = {<< StrA, StrB >>}
    /\ xfer.split
    /\ xfer.in_order
    /\ Len(xfer.chunks) = 3
    /\ xfer.delivered = {1, 2, 3}
    /\ xfer.done
    /\ snapshot_bytes = xfer.bytes

\* C8 as claimed: decoding never panics; every byte sequence decodes to a value
\* or to None.
C8_Original ==
    cout.stage = "read" => cout.result.tag \in {"Some", "None"}

\* C9: a value written and read back, with any bytes after it, is the value
\* written: the same pairs for a map, the same key, value and mid for a command.
C9_RoundTrip ==
    cout.stage = "read" /\ IsSome(cin.value) => cout.result = Decoded(cin.value[1])

\* C9 witness: a map of two pairs, one with a two-byte character, was written
\* and read back with two bytes after it
C9_Witness ==
    /\ cout.stage = "read"
    /\ cin.kind = "kv"
    /\ cin.value = Some({<< StrEAcute, StrB >>, << StrA, StrEmpty >>})
    /\ cin.bytes = << 255, 1 >>
    /\ cout.result.tag = "Some"

-----------------------------------------------------------------------------
(* The whole storage driven by its owner: a storage made with any initial  *)
(* state machine, then terms and votes stored, log entries appended and    *)
(* removed, snapshots installed, received in chunks and read.              *)

MaxNode == 2

MaxStoAppends == 1

AllEntryTypes == {"Command", "Config"}

\* The state machines a storage is made with
InitStates == {{}, {<< StrB, StrB >>}}

\* The snapshots installed or received
StoStates == {{}, {<< StrA, StrB >>}}

StoChunks == UNION {ChunksOf(e, MaxChunk) : e \in UNION {KvEncodings(m) : m \in StoStates}}

StoInit ==
    /\ \E sm \in InitStates : StorageNew(sm)
    /\ xfer = NoXfer
    /\ cin = NoCodec
    /\ cout = NoCodecOut

StoSetTerm ==
    /\ \E t \in 0..MaxTerm : set_current_term(t)
    /\ UNCHANGED << xfer, cin, cout >>

StoSetVote ==
    /\ \E v \in {None} \cup {Some(n) : n \in 1..MaxNode} : set_voted_for(v)
    /\ UNCHANGED << xfer, cin, cout >>

StoAdd ==
    /\ appended < MaxStoAppends
    /\ \E ty \in AllEntryTypes : add_log_entry([tag |-> appended, entry_type |-> ty])
    /\ UNCHANGED << xfer, cin, cout >>

StoRemoveBefore ==
    /\ \E index \in 0..MaxStoAppends : remove_log_entries_before(index)
    /\ UNCHANGED << xfer, cin, cout >>

StoRemoveStartingAt ==
    /\ \E index \in 0..MaxStoAppends : remove_log_entries_starting_at(index)
    /\ UNCHANGED << xfer, cin, cout >>

StoSetSnapshot ==
    /\ \E m \in StoStates : \E o \in Orders(m) : set_snapshot(MaxIndex, MaxTerm, o)
    /\ UNCHANGED << xfer, cin, cout >>

StoChunk ==
    /\ \E c \in StoChunks : add_new_snapshot_chunk(c[1], c[2])
    /\ UNCHANGED << xfer, cin, cout >>

StoTryUse ==
    /\ try_use_chunks_as_new_snapshot(MaxIndex, MaxTerm)
    /\ UNCHANGED << xfer, cin, cout >>

StoSnapshot ==
    /\ call_snapshot
    /\ UNCHANGED << xfer, cin, cout >>

StoNext ==
    \/ StoSetTerm
    \/ StoSetVote
    \/ StoAdd
    \/ StoRemoveBefore
    \/ StoRemoveStartingAt
    \/ StoSetSnapshot
    \/ StoChunk
    \/ StoTryUse
    \/ StoSnapshot

Spec == StoInit /\ [][StoNext]_vars

\* C12: a new storage has snapshot metadata (0, 0) and no payload bytes, and
\* snapshot() on it gives the initial state machine; whenever the payload does
\* not decode, a snapshot() call returns a copy of the initial state machine
\* without failing and without changing anything the storage holds.
C12_Bootstrap ==
    [][/\ call.op = "new" =>
             /\ snapshot_last_index = 0
             /\ snapshot_last_term = 0
             /\ total_snapshot_bytes = 0
             /\ snapshot = Decoded(init_state_machine)
       /\ call'.op = "snapshot" =>
             /\ ~panicked'
             /\ UNCHANGED storageVars
             /\ RaftTryFromSlice(snapshot_bytes).tag = "None" =>
                   call'.ret = Some(init_state_machine)]_vars

\* C12 witness: snapshot() was called on a storage made with a non-empty state
\* machine, with no snapshot installed and a transfer under way
C12_Witness ==
    /\ call = Called("snapshot", << >>, Some({<< StrB, StrB >>}))
    /\ init_state_machine = {<< StrB, StrB >>}
    /\ snapshot_bytes = << >>
    /\ snapshot_last_index = 0
    /\ snapshot_chunk_bytes # << >>
    /\ ~panicked

\* C14: a new storage has term 0 and no vote; set_current_term stores its
\* argument and leaves the vote alone, set_voted_for stores its argument and
\* leaves the term alone, whatever the values were before; and no other
\* operation changes the term or the vote.
C14_TermAndVote ==
    [][/\ call.op = "new" => current_term = 0 /\ voted_for = None
       /\ call'.op = "set_current_term" =>
             /\ current_term' = call'.args[1]
             /\ UNCHANGED voted_for
       /\ call'.op = "set_voted_for" =>
             /\ voted_for' = call'.args[1]
             /\ UNCHANGED current_term
       /\ call'.op \notin {"set_current_term", "set_voted_for"} =>
             UNCHANGED << current_term, voted_for >>]_vars

\* C14 witness: the term was set back to 0 while a vote for node 2, a log
\* entry and an installed snapshot were held
C14_Witness ==
    /\ call = Called("set_current_term", << 0 >>, None)
    /\ current_term = 0
    /\ voted_for = Some(2)
    /\ num_log_entries = 1
    /\ snapshot_last_index = MaxIndex
    /\ snapshot_bytes # << >>

-----------------------------------------------------------------------------
(* The log with entries of both kinds, appended, truncated at either end,  *)
(* viewed from a position and searched for its last Config entry.          *)

MaxCfgAppends == 6

CfgAdd ==
    /\ appended < MaxCfgAppends
    /\ \E ty \in AllEntryTypes : add_log_entry([tag |-> appended, entry_type |-> ty])
    /\ UNCHANGED << xfer, cin, cout >>

CfgRemoveBefore ==
    /\ \E index \in 0..(MaxCfgAppends + 1) : remove_log_entries_before(index)
    /\ UNCHANGED << xfer, cin, cout >>

CfgRemoveStartingAt ==
    /\ \E index \in 0..(MaxCfgAppends + 1) : remove_log_entries_starting_at(index)
    /\ UNCHANGED << xfer, cin, cout >>

CfgLogEntries ==
    /\ \E start_index \in 0..(MaxCfgAppends + 1) : log_entries(start_index)
    /\ UNCHANGED << xfer, cin, cout >>

CfgLastConfig ==
    /\ get_index_of_last_config_in_log
    /\ UNCHANGED << xfer, cin, cout >>

CfgNext ==
    \/ CfgAdd
    \/ CfgRemoveBefore
    \/ CfgRemoveStartingAt
    \/ CfgLogEntries
    \/ CfgLastConfig

SpecConfig == LogInit /\ [][CfgNext]_vars

\* The positions of v that hold a Config entry
ConfigPositions(v) == {p \in 0..(Len(v) - 1) : VecGet(v, p)[1].entry_type = "Config"}

\* C18: get_index_of_last_config_in_log() returns the greatest position of the
\* current log that holds a Config entry, and None exactly when the log holds
\* none; and after remove_log_entries_before(i) a result p that was returned
\* before becomes p - i when p >= i and None otherwise, since no Config entry
\* older than p survives.
C18_LastConfig ==
    [][LET before == LastConfigOf(log)
           after == LastConfigOf(log')
           configs == ConfigPositions(log)
       IN  /\ call'.op = "get_index_of_last_config_in_log" =>
                 /\ call'.ret = before
                 /\ configs = {} <=> call'.ret = None
                 /\ configs # {} =>
                       /\ call'.ret[1] \in configs
                       /\ call'.ret[1] < num_log_entries
                       /\ \A q \in configs : q <= call'.ret[1]
                 /\ UNCHANGED storageVars
           /\ call'.op = "remove_log_entries_before" /\ ~panicked' /\ IsSome(before) =>
                 LET i == call'.args[1]
                     p == before[1]
                 IN  after = IF p >= i THEN Some(p - i) ELSE None]_vars

\* C18 witness: the last Config entry of a log that holds two of them and a
\* Command entry after them was asked for, after the prefix was cut at 2
C18_Witness ==
    /\ call = Called("get_index_of_last_config_in_log", << >>, Some(1))
    /\ Tags(log) = << 2, 3, 4 >>
    /\ log_entry(0)[1].entry_type = "Config"
    /\ log_entry(1)[1].entry_type = "Config"
    /\ log_entry(2)[1].entry_type = "Command"

\* C19: log_entries(start) with start <= num_log_entries() does not fail and
\* returns the entries at positions start and above in order, each the one
\* log_entry gives for its position (none when start is the length), and
\* leaves the log as it is.
C19_LogEntries ==
    [][call'.op = "log_entries" /\ call'.args[1] <= num_log_entries =>
          LET start == call'.args[1]
          IN  /\ ~panicked'
              /\ IsSome(call'.ret)
              /\ Len(call'.ret[1]) = num_log_entries - start
              /\ \A k \in 0..(num_log_entries - start - 1) :
                    Some(call'.ret[1][k + 1]) = log_entry(start + k)
              /\ start = num_log_entries => call'.ret[1] = << >>
              /\ UNCHANGED storageVars]_vars

\* C19 witness: the entries from position 1 of a log of three were viewed
C19_Witness ==
    /\ call.op = "log_entries"
    /\ call.args = << 1 >>
    /\ IsSome(call.ret)
    /\ Tags(log) = << 3, 4, 5 >>
    /\ Tags(call.ret[1]) = << 4, 5 >>
    /\ ~panicked

====
